---------------------------- MODULE Spec2Model ----------------------------
(***************************************************************************)
(* A model of parse_dbnotebook.py: the converter between the Databricks    *)
(* notebook format and the Jupyter "percent" format.                       *)
(*                                                                         *)
(* A Python str is modelled as a sequence of one-character strings, so     *)
(* that str.replace, str.split, str.strip, the "in" test and re.sub work   *)
(* on characters exactly as they do in the source.                         *)
(***************************************************************************)
EXTENDS Integers, Sequences, FiniteSets, TLC

(***************************************************************************)
(* String literals of the source.                                          *)
(***************************************************************************)
NL == "\n"

\* "# Databricks notebook source"
NOTEBOOK_SOURCE ==
    <<"#"," ","D","a","t","a","b","r","i","c","k","s"," ","n","o","t","e","b","o","o","k"," ","s","o","u","r","c","e">>
\* "# Databricks notebook source\n"
NOTEBOOK_SOURCE_NL ==
    <<"#"," ","D","a","t","a","b","r","i","c","k","s"," ","n","o","t","e","b","o","o","k"," ","s","o","u","r","c","e","\n">>
\* "# COMMAND ----------"
COMMAND_SEP ==
    <<"#"," ","C","O","M","M","A","N","D"," ","-","-","-","-","-","-","-","-","-","-">>
\* "# COMMAND ----------\n\n"
COMMAND_NL_NL ==
    <<"#"," ","C","O","M","M","A","N","D"," ","-","-","-","-","-","-","-","-","-","-","\n","\n">>
\* "# COMMAND ----------\n\n# MAGIC %md\n"
COMMAND_MAGIC_MD ==
    <<"#"," ","C","O","M","M","A","N","D"," ","-","-","-","-","-","-","-","-","-","-","\n","\n","#"," ","M","A","G","I","C"," ","%","m","d","\n">>
\* "# Databricks notebook source\n# COMMAND ----------\n\n"
SOURCE_COMMAND ==
    <<"#"," ","D","a","t","a","b","r","i","c","k","s"," ","n","o","t","e","b","o","o","k"," ","s","o","u","r","c","e","\n","#"," ","C","O","M","M","A","N","D"," ","-","-","-","-","-","-","-","-","-","-","\n","\n">>
\* "# MAGIC"
MAGIC ==
    <<"#"," ","M","A","G","I","C">>
\* "# MAGIC "
MAGIC_SP ==
    <<"#"," ","M","A","G","I","C"," ">>
\* "# MAGIC %md"
MAGIC_MD ==
    <<"#"," ","M","A","G","I","C"," ","%","m","d">>
\* "# MAGIC %md\n"
MAGIC_MD_NL ==
    <<"#"," ","M","A","G","I","C"," ","%","m","d","\n">>
\* "# "
HASH_SP ==
    <<"#"," ">>
\* "#"
HASH ==
    <<"#">>
\* "#\n"
HASH_NL ==
    <<"#","\n">>
\* "# %% [markdown]"
MARKDOWN_MARKER ==
    <<"#"," ","%","%"," ","[","m","a","r","k","d","o","w","n","]">>
\* "# %% [markdown]\n"
MARKDOWN_MARKER_NL ==
    <<"#"," ","%","%"," ","[","m","a","r","k","d","o","w","n","]","\n">>
\* "# %%"
CODE_MARKER ==
    <<"#"," ","%","%">>
\* "# %%\n"
CODE_MARKER_NL ==
    <<"#"," ","%","%","\n">>
\* "\n\n\n"
NL_NL_NL ==
    <<"\n","\n","\n">>
\* "\n\n"
NL_NL ==
    <<"\n","\n">>
\* ".py"
EXT_PY ==
    <<".","p","y">>
\* ".ipynb"
EXT_IPYNB ==
    <<".","i","p","y","n","b">>

\* The character class [a-zA-Z] of the regular expression.
Letters ==
    {"a","b","c","d","e","f","g","h","i","j","k","l","m",
     "n","o","p","q","r","s","t","u","v","w","x","y","z",
     "A","B","C","D","E","F","G","H","I","J","K","L","M",
     "N","O","P","Q","R","S","T","U","V","W","X","Y","Z"}

\* The characters str.strip() removes.
Whitespace == {" ", "\t", "\n", "\r", "\f"}

(***************************************************************************)
(* Python's string operations, on sequences of characters.                 *)
(***************************************************************************)
\* p occurs in s at index i
IsAt(s, i, p) ==
    /\ i + Len(p) - 1 <= Len(s)
    /\ \A k \in 1..Len(p) : s[i + k - 1] = p[k]

\* s.startswith(p)
StartsWith(s, p) == IsAt(s, 1, p)

\* s.endswith(p)
EndsWith(s, p) == Len(p) <= Len(s) /\ IsAt(s, Len(s) - Len(p) + 1, p)

\* p in s
Contains(s, p) == \E i \in 1..(Len(s) - Len(p) + 1) : IsAt(s, i, p)

\* The least element of a non-empty set of indices.
Least(S) == CHOOSE j \in S : \A k \in S : j <= k

\* The index of the first occurrence of p in s at or after i, 0 if there is none.
Find(s, p, i) ==
    LET found == {j \in i..(Len(s) - Len(p) + 1) : IsAt(s, j, p)}
    IN  IF found = {} THEN 0 ELSE Least(found)

\* s.replace(old, new): every occurrence, left to right, without overlap
RECURSIVE ReplaceFrom(_, _, _, _)
ReplaceFrom(s, old, new, i) ==
    LET j == Find(s, old, i)
    IN  IF j = 0 THEN SubSeq(s, i, Len(s))
        ELSE SubSeq(s, i, j - 1) \o new \o ReplaceFrom(s, old, new, j + Len(old))

Replace(s, old, new) == ReplaceFrom(s, old, new, 1)

\* s.split("\n", maxsplit): maxsplit = -1 puts no limit on the splits
RECURSIVE SplitFrom(_, _, _)
SplitFrom(s, i, maxsplit) ==
    LET j == IF maxsplit = 0 THEN 0 ELSE Find(s, <<NL>>, i)
    IN  IF j = 0 THEN <<SubSeq(s, i, Len(s))>>
        ELSE <<SubSeq(s, i, j - 1)>> \o SplitFrom(s, j + 1, maxsplit - 1)

SplitMax(s, maxsplit) == SplitFrom(s, 1, maxsplit)

Split(s) == SplitMax(s, -1)

\* "\n".join(lines)
RECURSIVE JoinFrom(_, _, _)
JoinFrom(lines, i, acc) ==
    IF i > Len(lines) THEN acc
    ELSE JoinFrom(lines, i + 1, acc \o <<NL>> \o lines[i])

Join(lines) == IF lines = <<>> THEN <<>> ELSE JoinFrom(lines, 2, lines[1])

\* s.strip()
RECURSIVE LStrip(_)
LStrip(s) ==
    IF s # <<>> /\ s[1] \in Whitespace THEN LStrip(Tail(s)) ELSE s

RECURSIVE RStrip(_)
RStrip(s) ==
    IF s # <<>> /\ s[Len(s)] \in Whitespace
    THEN RStrip(SubSeq(s, 1, Len(s) - 1)) ELSE s

Strip(s) == RStrip(LStrip(s))

(***************************************************************************)
(* add_linebreak_after_percent_words                                       *)
(***************************************************************************)
\* add_newline with one line break only: no blank line after the match.
add_one_newline(group1) == group1 \o <<NL>>

\* add_newline: group 1 of the match, then two line breaks
add_newline(group1) == group1 \o <<NL, NL>>

\* The index of the first "%" followed by a letter at or after i, 0 if none:
\* where a match of %[a-zA-Z]+ starts.
FindPercentWord(s, i) ==
    LET found == {j \in i..(Len(s) - 1) : s[j] = "%" /\ s[j + 1] \in Letters}
    IN  IF found = {} THEN 0 ELSE Least(found)

\* re.sub(r"(%[a-zA-Z]+.*?)(\n|$)", add_newline, text, flags=re.DOTALL):
\* the lazy .*? ends group 1 at the first "\n" after the word, or at the end
\* of the text when no "\n" follows.
RECURSIVE SubFrom(_, _)
SubFrom(s, i) ==
    LET j == FindPercentWord(s, i)
    IN  IF j = 0 THEN SubSeq(s, i, Len(s))
        ELSE LET n == Find(s, <<NL>>, j)
                 e == IF n = 0 THEN Len(s) + 1 ELSE n
             IN  SubSeq(s, i, j - 1) \o add_newline(SubSeq(s, j, e - 1))
                     \o SubFrom(s, e + 1)

add_linebreak_after_percent_words(text) == SubFrom(text, 1)

(***************************************************************************)
(* parse_dbnotebook                                                        *)
(***************************************************************************)
\* The limit of the split that takes the first line off the first block.
MAXSPLIT == 3

\* idx == 0: blck = "\n" + "\n".join(blck.split("\n", 3)[1:])
first_block(blck) ==
    LET parts == SplitMax(blck, MAXSPLIT)
    IN  <<NL>> \o Join(SubSeq(parts, 2, Len(parts)))

\* The block as the classification sees it.
handled_block(idx, blck) == IF idx = 0 THEN first_block(blck) ELSE blck

\* if "# MAGIC" in blck
is_markdown(blck) == Contains(blck, MAGIC)

\* tmp_str.replace("# MAGIC ", "# ")
strip_magic(tmp_str) == Replace(tmp_str, MAGIC_SP, HASH_SP)

\* The markdown branch of the loop body.
markdown_str(blck) ==
    add_linebreak_after_percent_words(
        strip_magic(
            Replace(MARKDOWN_MARKER \o blck \o <<NL>>, MAGIC_MD_NL, <<>>)))

\* The code branch of the loop body.
code_str(blck) == CODE_MARKER \o blck \o <<NL>>

\* What one pass of the loop adds to full_str; idx counts from 0.
tmp_str(idx, blck) ==
    LET b == handled_block(idx, blck)
    IN  IF is_markdown(b) THEN markdown_str(b) ELSE code_str(b)

\* The values added to full_str, block by block.
loop_strs(file_str) ==
    [i \in 1..Len(file_str) |-> tmp_str(i - 1, file_str[i])]

RECURSIVE Concat(_, _, _)
Concat(strs, i, acc) ==
    IF i > Len(strs) THEN acc ELSE Concat(strs, i + 1, acc \o strs[i])

parse_dbnotebook(file_str) == Concat(loop_strs(file_str), 1, <<>>)

(***************************************************************************)
(* process_magic_commands                                                  *)
(***************************************************************************)
\* The comment line appended as it is, without the "# MAGIC" prefix.
magic_line_unprefixed(line) == line

\* result.append("# MAGIC" + lines[i][1:])
magic_line(line) == MAGIC \o Tail(line)

\* A line of a markdown cell: the body of the inner loop.
markdown_line(line) ==
    IF StartsWith(line, HASH) THEN magic_line(line) ELSE line

\* The two loops: in_md is TRUE while the inner loop runs.
RECURSIVE MagicFrom(_, _, _, _)
MagicFrom(lines, i, in_md, result) ==
    IF i > Len(lines) THEN result
    ELSE IF in_md
         THEN IF StartsWith(lines[i], COMMAND_SEP)
              THEN MagicFrom(lines, i, FALSE, result)
              ELSE MagicFrom(lines, i + 1, TRUE,
                             Append(result, markdown_line(lines[i])))
         ELSE IF Strip(lines[i]) = MAGIC_MD
              THEN MagicFrom(lines, i + 1, TRUE, Append(result, lines[i]))
              ELSE MagicFrom(lines, i + 1, FALSE, Append(result, lines[i]))

process_magic_commands(text) == Join(MagicFrom(Split(text), 1, FALSE, <<>>))

(***************************************************************************)
(* split_script                                                            *)
(***************************************************************************)
RECURSIVE BlocksFrom(_, _, _, _)
BlocksFrom(lines, i, current_block, result) ==
    IF i > Len(lines)
    THEN IF current_block # <<>>
         THEN Append(result, Join(current_block)) ELSE result
    ELSE IF Strip(lines[i]) = COMMAND_SEP
         THEN IF current_block # <<>>
              THEN BlocksFrom(lines, i + 1, <<>>,
                              Append(result, Join(current_block)))
              ELSE BlocksFrom(lines, i + 1, current_block, result)
         ELSE BlocksFrom(lines, i + 1, Append(current_block, lines[i]), result)

split_script(file_content) == BlocksFrom(Split(file_content), 1, <<>>, <<>>)

(***************************************************************************)
(* parse_jupyter_notebook                                                  *)
(***************************************************************************)
\* The text with the source line in front and the cell markers replaced.
replace_markers(file_content) ==
    Replace(
        Replace(NOTEBOOK_SOURCE_NL \o file_content,
                MARKDOWN_MARKER_NL, COMMAND_MAGIC_MD),
        CODE_MARKER_NL, COMMAND_NL_NL)

\* file_content.replace("#\n", "")
drop_empty_comments(text) == Replace(text, HASH_NL, <<>>)

\* file_content.replace("\n\n\n", "\n\n")
collapse_blank_lines(text) == Replace(text, NL_NL_NL, NL_NL)

\* The text that process_magic_commands returns within parse_jupyter_notebook.
magic_text(file_content) ==
    process_magic_commands(drop_empty_comments(replace_markers(file_content)))

parse_jupyter_notebook(file_content) ==
    Replace(collapse_blank_lines(magic_text(file_content)),
            SOURCE_COMMAND, NOTEBOOK_SOURCE_NL)

(***************************************************************************)
(* The texts the model runs the program on.                                *)
(***************************************************************************)
\* The most lines a Databricks text has after its first line.
MaxDbLines == 3

\* The most pieces a percent-format text is joined from.
MaxPctLines == 4

\* "# MAGIC text"
MAGIC_TEXT ==
    <<"#"," ","M","A","G","I","C"," ","t","e","x","t">>
\* "# MAGIC %sql SELECT 1"
MAGIC_SQL ==
    <<"#"," ","M","A","G","I","C"," ","%","s","q","l"," ","S","E","L","E","C","T"," ","1">>
\* "# %sql SELECT 1"
HASH_SQL ==
    <<"#"," ","%","s","q","l"," ","S","E","L","E","C","T"," ","1">>
\* "%sql SELECT 1"
BARE_SQL ==
    <<"%","s","q","l"," ","S","E","L","E","C","T"," ","1">>
\* "x = 1"
CODE_LINE ==
    <<"x"," ","="," ","1">>
\* "x = 1 #"
CODE_HASH ==
    <<"x"," ","="," ","1"," ","#">>
\* "x = '# MAGIC'"
CODE_STR ==
    <<"x"," ","="," ","'","#"," ","M","A","G","I","C","'">>
\* "# text"
MD_TEXT ==
    <<"#"," ","t","e","x","t">>
\* Three blank lines, once joined between two lines.
BLANK3 ==
    <<"\n","\n">>
\* "n.py"
PY_PATH ==
    <<"n",".","p","y">>
\* "n.ipynb"
IPYNB_PATH ==
    <<"n",".","i","p","y","n","b">>
\* "n.txt"
TXT_PATH ==
    <<"n",".","t","x","t">>
\* "n"
BARE_PATH ==
    <<"n">>
\* "out"
OUT_PATH ==
    <<"o","u","t">>

\* All sequences over S of length at most n.
SeqsUpTo(S, n) == UNION {[1..k -> S] : k \in 0..n}

\* The lines of a Databricks text.
DbLines ==
    {COMMAND_SEP, MAGIC_MD, MAGIC_TEXT, MAGIC, MAGIC_SQL,
     CODE_LINE, CODE_STR, <<>>}

\* Databricks texts, with and without the source line in front.
DbTexts ==
    {Join(first \o lines) :
        first \in {<<>>, <<NOTEBOOK_SOURCE>>},
        lines \in SeqsUpTo(DbLines, MaxDbLines)}

\* The pieces of a percent-format text.
PctLines ==
    {MARKDOWN_MARKER, CODE_MARKER, MD_TEXT, HASH, CODE_LINE, CODE_HASH,
     <<>>, BLANK3}

PctTexts == {Join(lines) : lines \in SeqsUpTo(PctLines, MaxPctLines)}

\* The contents of the input file of a run of main.
MainTexts ==
    { Join(<<NOTEBOOK_SOURCE, MAGIC_MD, MAGIC_TEXT, COMMAND_SEP, <<>>,
             CODE_LINE, <<>>>>),
      Join(<<CODE_LINE, <<>>>>),
      Join(<<CODE_LINE, NOTEBOOK_SOURCE, <<>>>>),
      Join(<<MARKDOWN_MARKER, MD_TEXT, <<>>, CODE_MARKER, CODE_LINE, <<>>>>),
      <<>> }

(***************************************************************************)
(* The state of a run.                                                     *)
(***************************************************************************)
VARIABLES
    args_file,      \* args.file: the input path
    args_output,    \* args.output: <<>> for None, <<path>> when given
    file_state,     \* the input file: "ok", "missing" or "unreadable"
    disk_text,      \* the text the input file holds
    file_content,   \* main's file_content
    output_file,    \* main's output_file
    split_blocks,   \* main's split_blocks
    tmp_strs,       \* parse_dbnotebook's tmp_str, one for each block
    parsed_nb,      \* main's parsed_nb
    nb_str,         \* main's nb_str: percent-format text
    magic_str,      \* parse_jupyter_notebook's text after process_magic_commands
    db_text,        \* what parse_jupyter_notebook returns
    written,        \* the files written, in order: [path, data]
    stdout,         \* what was printed to the output stream
    stderr,         \* what was printed to the error stream
    exit_code,      \* <<>> while running, <<code>> after sys.exit(code)
    raised,         \* the uncaught exception that ended the run, or "none"
    pc              \* the position of the run

vars ==
    <<args_file, args_output, file_state, disk_text, file_content,
      output_file, split_blocks, tmp_strs, parsed_nb, nb_str, magic_str,
      db_text, written, stdout, stderr, exit_code, raised, pc>>

\* The variables of the command line and the file system.
env_vars ==
    <<args_file, args_output, file_state, disk_text, written, stdout,
      stderr, exit_code, raised>>

Unset ==
    /\ file_content = <<>>
    /\ output_file = <<>>
    /\ split_blocks = <<>>
    /\ tmp_strs = <<>>
    /\ parsed_nb = <<>>
    /\ nb_str = <<>>
    /\ magic_str = <<>>
    /\ db_text = <<>>
    /\ written = <<>>
    /\ stdout = <<>>
    /\ stderr = <<>>
    /\ exit_code = <<>>
    /\ raised = "none"

(***************************************************************************)
(* main                                                                    *)
(***************************************************************************)
\* sys.exit(1)
EXIT_FAILURE == 1

Init ==
    /\ args_file \in {PY_PATH, IPYNB_PATH, TXT_PATH, BARE_PATH}
    /\ args_output \in {<<>>, <<OUT_PATH>>}
    /\ file_state \in {"ok", "missing", "unreadable"}
    /\ disk_text \in MainTexts
    /\ Unset
    /\ pc = "open"

\* with open(args.file, "r") as file: file_content = file.read()
OpenFile ==
    /\ pc = "open"
    /\ file_state = "ok"
    /\ file_content' = disk_text
    /\ pc' = "branch"
    /\ UNCHANGED <<output_file, split_blocks, tmp_strs, parsed_nb, nb_str,
                   magic_str, db_text, env_vars>>

\* except FileNotFoundError
FileNotFound ==
    /\ pc = "open"
    /\ file_state = "missing"
    /\ stderr' = Append(stderr, <<"Error: File '", args_file, "' not found.">>)
    /\ exit_code' = <<EXIT_FAILURE>>
    /\ pc' = "exited"
    /\ UNCHANGED <<args_file, args_output, file_state, disk_text,
                   file_content, output_file, split_blocks, tmp_strs,
                   parsed_nb, nb_str, magic_str, db_text, written, stdout,
                   raised>>

\* The handler without its sys.exit(1): the message is printed and main goes on.
ReadErrorGoesOn ==
    /\ pc = "open"
    /\ file_state = "unreadable"
    /\ stderr' = Append(stderr,
                        <<"Error: Could not read file '", args_file, "'.">>)
    /\ pc' = "branch"
    /\ UNCHANGED <<args_file, args_output, file_state, disk_text,
                   file_content, output_file, split_blocks, tmp_strs,
                   parsed_nb, nb_str, magic_str, db_text, written, stdout,
                   exit_code, raised>>

\* except IOError
ReadError ==
    /\ pc = "open"
    /\ file_state = "unreadable"
    /\ stderr' = Append(stderr,
                        <<"Error: Could not read file '", args_file, "'.">>)
    /\ exit_code' = <<EXIT_FAILURE>>
    /\ pc' = "exited"
    /\ UNCHANGED <<args_file, args_output, file_state, disk_text,
                   file_content, output_file, split_blocks, tmp_strs,
                   parsed_nb, nb_str, magic_str, db_text, written, stdout,
                   raised>>

\* if args.file.endswith(".py")
BranchPy ==
    /\ pc = "branch"
    /\ EndsWith(args_file, EXT_PY)
    /\ stdout' = Append(stdout,
                        "Parsing Databricks notebook to Jupyter notebook")
    /\ pc' = "assert"
    /\ UNCHANGED <<args_file, args_output, file_state, disk_text,
                   file_content, output_file, split_blocks, tmp_strs,
                   parsed_nb, nb_str, magic_str, db_text, written, stderr,
                   exit_code, raised>>

\* The assertion left out: a text without the source line is converted too.
AssertSkipped ==
    /\ pc = "assert"
    /\ ~Contains(file_content, NOTEBOOK_SOURCE)
    /\ output_file' = IF args_output # <<>> THEN args_output[1]
                      ELSE Replace(args_file, EXT_PY, EXT_IPYNB)
    /\ pc' = "split"
    /\ UNCHANGED <<file_content, split_blocks, tmp_strs, parsed_nb, nb_str,
                   magic_str, db_text, env_vars>>

\* assert "# Databricks notebook source" in file_content: the assertion fails
AssertFails ==
    /\ pc = "assert"
    /\ ~Contains(file_content, NOTEBOOK_SOURCE)
    /\ raised' = "AssertionError"
    /\ pc' = "raised"
    /\ UNCHANGED <<args_file, args_output, file_state, disk_text,
                   file_content, output_file, split_blocks, tmp_strs,
                   parsed_nb, nb_str, magic_str, db_text, written, stdout,
                   stderr, exit_code>>

\* The assertion holds; output_file is set.
AssertHolds ==
    /\ pc = "assert"
    /\ Contains(file_content, NOTEBOOK_SOURCE)
    /\ output_file' = IF args_output # <<>> THEN args_output[1]
                      ELSE Replace(args_file, EXT_PY, EXT_IPYNB)
    /\ pc' = "split"
    /\ UNCHANGED <<file_content, split_blocks, tmp_strs, parsed_nb, nb_str,
                   magic_str, db_text, env_vars>>

\* split_blocks = split_script(file_content)
SplitBlocks ==
    /\ pc = "split"
    /\ split_blocks' = split_script(file_content)
    /\ pc' = "parse"
    /\ UNCHANGED <<file_content, output_file, tmp_strs, parsed_nb, nb_str,
                   magic_str, db_text, env_vars>>

\* parsed_nb = parse_dbnotebook(split_blocks)
ParseBlocks ==
    /\ pc = "parse"
    /\ tmp_strs' = loop_strs(split_blocks)
    /\ parsed_nb' = parse_dbnotebook(split_blocks)
    /\ pc' = "write_nb"
    /\ UNCHANGED <<file_content, output_file, split_blocks, nb_str,
                   magic_str, db_text, env_vars>>

\* jupytext.reads(parsed_nb, fmt="py:percent"): the notebook of a percent text
reads(text) == [percent |-> text]

\* jupytext.writes(nb, fmt="py:percent"): the percent text of a notebook
writes(nb) == nb.percent

\* nb = jupytext.reads(parsed_nb, fmt="py:percent"); jupytext.write(nb, output_file)
WriteNotebook ==
    /\ pc = "write_nb"
    /\ written' = Append(written,
                         [path |-> output_file, data |-> reads(parsed_nb)])
    /\ pc' = "done"
    /\ UNCHANGED <<args_file, args_output, file_state, disk_text,
                   file_content, output_file, split_blocks, tmp_strs,
                   parsed_nb, nb_str, magic_str, db_text, stdout, stderr,
                   exit_code, raised>>

\* elif args.file.endswith(".ipynb")
BranchIpynb ==
    /\ pc = "branch"
    /\ ~EndsWith(args_file, EXT_PY)
    /\ EndsWith(args_file, EXT_IPYNB)
    /\ stdout' = Append(stdout,
                        "Parsing Jupyter notebook to Databricks notebook")
    /\ output_file' = IF args_output # <<>> THEN args_output[1]
                      ELSE Replace(args_file, EXT_IPYNB, EXT_PY)
    /\ pc' = "write_py"
    /\ UNCHANGED <<args_file, args_output, file_state, disk_text,
                   file_content, split_blocks, tmp_strs, parsed_nb, nb_str,
                   magic_str, db_text, written, stderr, exit_code, raised>>

\* nb = jupytext.read(args.file); nb_str = jupytext.writes(nb, fmt="py:percent");
\* file.write(parse_jupyter_notebook(nb_str))
WriteScript ==
    /\ pc = "write_py"
    /\ nb_str' = writes(reads(disk_text))
    /\ magic_str' = magic_text(nb_str')
    /\ db_text' = parse_jupyter_notebook(nb_str')
    /\ written' = Append(written, [path |-> output_file, data |-> db_text'])
    /\ pc' = "done"
    /\ UNCHANGED <<args_file, args_output, file_state, disk_text,
                   file_content, output_file, split_blocks, tmp_strs,
                   parsed_nb, stdout, stderr, exit_code, raised>>

\* The else branch left out: main returns without raising.
BranchOtherSilent ==
    /\ pc = "branch"
    /\ ~EndsWith(args_file, EXT_PY)
    /\ ~EndsWith(args_file, EXT_IPYNB)
    /\ pc' = "done"
    /\ UNCHANGED <<file_content, output_file, split_blocks, tmp_strs,
                   parsed_nb, nb_str, magic_str, db_text, env_vars>>

\* else: raise ValueError("File must be a Python script or Jupyter notebook.")
BranchOther ==
    /\ pc = "branch"
    /\ ~EndsWith(args_file, EXT_PY)
    /\ ~EndsWith(args_file, EXT_IPYNB)
    /\ raised' = "ValueError"
    /\ pc' = "raised"
    /\ UNCHANGED <<args_file, args_output, file_state, disk_text,
                   file_content, output_file, split_blocks, tmp_strs,
                   parsed_nb, nb_str, magic_str, db_text, written, stdout,
                   stderr, exit_code>>

Next ==
    \/ OpenFile
    \/ FileNotFound
    \/ ReadError
    \/ BranchPy
    \/ AssertFails
    \/ AssertHolds
    \/ SplitBlocks
    \/ ParseBlocks
    \/ WriteNotebook
    \/ BranchIpynb
    \/ WriteScript
    \/ BranchOther

Spec == Init /\ [][Next]_vars

(***************************************************************************)
(* The conversion of a Databricks text to percent format and back:         *)
(* parse_jupyter_notebook(parse_dbnotebook(split_script(x))).              *)
(***************************************************************************)
ConvInit ==
    /\ args_file = PY_PATH
    /\ args_output = <<>>
    /\ file_state = "ok"
    /\ disk_text \in DbTexts
    /\ Unset
    /\ pc = "open"

\* parse_jupyter_notebook(parsed_nb)
ConvertBack ==
    /\ pc = "write_nb"
    /\ nb_str' = writes(reads(parsed_nb))
    /\ magic_str' = magic_text(nb_str')
    /\ db_text' = parse_jupyter_notebook(nb_str')
    /\ pc' = "back"
    /\ UNCHANGED <<file_content, output_file, split_blocks, tmp_strs,
                   parsed_nb, env_vars>>

\* The text is taken as given: the functions are applied without main's checks.
ConvRead ==
    /\ pc = "open"
    /\ file_content' = disk_text
    /\ pc' = "split"
    /\ UNCHANGED <<output_file, split_blocks, tmp_strs, parsed_nb, nb_str,
                   magic_str, db_text, env_vars>>

ConvNext ==
    \/ ConvRead
    \/ SplitBlocks
    \/ ParseBlocks
    \/ ConvertBack

ConvSpec == ConvInit /\ [][ConvNext]_vars

(***************************************************************************)
(* The conversion of a percent-format text: parse_jupyter_notebook(x).     *)
(***************************************************************************)
PctInit ==
    /\ args_file = IPYNB_PATH
    /\ args_output = <<>>
    /\ file_state = "ok"
    /\ disk_text \in PctTexts
    /\ Unset
    /\ pc = "write_py"

\* parse_jupyter_notebook(nb_str)
ParseJupyter ==
    /\ pc = "write_py"
    /\ nb_str' = writes(reads(disk_text))
    /\ magic_str' = magic_text(nb_str')
    /\ db_text' = parse_jupyter_notebook(nb_str')
    /\ pc' = "back"
    /\ UNCHANGED <<file_content, output_file, split_blocks, tmp_strs,
                   parsed_nb, env_vars>>

PctNext == ParseJupyter

PctSpec == PctInit /\ [][PctNext]_vars

(***************************************************************************)
(* Vocabulary of the properties.                                           *)
(***************************************************************************)
\* The run has ended.
Ended == pc \in {"done", "exited", "raised"}

\* parse_dbnotebook has returned.
Parsed == pc \in {"write_nb", "back"}

\* The lines of a text; the empty piece after a final line break is no line.
LinesOf(text) ==
    LET ls == Split(text)
    IN  IF ls[Len(ls)] = <<>> THEN SubSeq(ls, 1, Len(ls) - 1) ELSE ls

IsBlank(line) == Strip(line) = <<>>

\* The first line of a block that is not blank, <<>> when every line is blank.
FirstContentLine(blck) ==
    LET ls == Split(blck)
        content == {k \in 1..Len(ls) : ~IsBlank(ls[k])}
    IN  IF content = {} THEN <<>> ELSE ls[Least(content)]

\* The text without its blank lines.
Normalize(text) == SelectSeq(Split(text), LAMBDA line : ~IsBlank(line))

\* a is b with some elements left out.
RECURSIVE IsSubSeqFrom(_, _, _, _)
IsSubSeqFrom(a, i, b, j) ==
    IF i > Len(a) THEN TRUE
    ELSE IF j > Len(b) THEN FALSE
    ELSE IF a[i] = b[j] THEN IsSubSeqFrom(a, i + 1, b, j + 1)
    ELSE IsSubSeqFrom(a, i, b, j + 1)

IsSubSeq(a, b) == IsSubSeqFrom(a, 1, b, 1)

\* ls has a run of exactly n empty lines, with a line before and after it.
HasBlankRun(ls, n) ==
    \E i \in 2..(Len(ls) - n) :
        /\ \A k \in i..(i + n - 1) : ls[k] = <<>>
        /\ ls[i - 1] # <<>>
        /\ ls[i + n] # <<>>

\* The empty lines of ls are one run of exactly n.
OneBlankRun(ls, n) ==
    /\ HasBlankRun(ls, n)
    /\ Cardinality({k \in 1..Len(ls) : ls[k] = <<>>}) = n

\* A Databricks text as the notebook export writes it: the source line first,
\* a blank line after every separator, and every cell either markdown (each
\* line "# MAGIC ...", the first one "# MAGIC %md") or code without "# MAGIC".
CellStart(ls, i) ==
    LET seps == {j \in 1..i : ls[j] = COMMAND_SEP}
    IN  IF seps = {} THEN 1 ELSE Least({j \in seps : \A k \in seps : k <= j})

CellFirst(ls, i) ==
    Least({j \in (CellStart(ls, i) + 1)..i : ~IsBlank(ls[j])})

WellFormedDb(text) ==
    LET ls == Split(text)
    IN  /\ ls[1] = NOTEBOOK_SOURCE
        /\ \A i \in 2..Len(ls) :
              /\ ls[i] # NOTEBOOK_SOURCE
              /\ Strip(ls[i]) = COMMAND_SEP =>
                    /\ ls[i] = COMMAND_SEP
                    /\ i < Len(ls)
                    /\ ls[i + 1] = <<>>
              /\ (~IsBlank(ls[i]) /\ ls[i] # COMMAND_SEP) =>
                    IF ls[CellFirst(ls, i)] = MAGIC_MD
                    THEN StartsWith(ls[i], MAGIC)
                    ELSE ~Contains(ls[i], MAGIC)

\* Line i of ls lies in a markdown cell: after a "# MAGIC %md" line, with no
\* "# COMMAND ----------" line in between.
InMarkdownCell(ls, i) ==
    \E j \in 1..(i - 1) :
        /\ Strip(ls[j]) = MAGIC_MD
        /\ \A k \in (j + 1)..i : ~StartsWith(ls[k], COMMAND_SEP)

\* The lines of the code cells of a percent-format text that are not blank:
\* the last cell marker before such a line is "# %%".
IsMarker(line) == line \in {CODE_MARKER, MARKDOWN_MARKER}

InCodeCell(ls, i) ==
    /\ ~IsMarker(ls[i])
    /\ \E j \in 1..(i - 1) :
          /\ ls[j] = CODE_MARKER
          /\ \A k \in (j + 1)..i : ~IsMarker(ls[k])

CodeLines(ls) ==
    LET keep == {i \in 1..Len(ls) : InCodeCell(ls, i) /\ ~IsBlank(ls[i])}
        F[i \in 0..Len(ls)] ==
            IF i = 0 THEN <<>>
            ELSE IF i \in keep THEN Append(F[i - 1], ls[i]) ELSE F[i - 1]
    IN  F[Len(ls)]

\* The places <<block, line>> of the lines "# MAGIC %sql SELECT 1" that
\* parse_dbnotebook keeps.
SqlLines(blocks) ==
    {ik \in (1..Len(blocks)) \X (1..(MaxDbLines + 2)) :
        /\ ik # <<1, 1>>
        /\ ik[2] <= Len(Split(blocks[ik[1]]))
        /\ Split(blocks[ik[1]])[ik[2]] = MAGIC_SQL}

(***************************************************************************)
(* C1. Converting a Databricks text to percent format and back gives the   *)
(* text again, blank lines apart.                                          *)
(***************************************************************************)
C1_RoundTrip ==
    (pc = "back" /\ WellFormedDb(file_content)) =>
        Normalize(db_text) = Normalize(file_content)

(***************************************************************************)
(* C2. A block whose first content line is "# MAGIC %md" is emitted under  *)
(* "# %% [markdown]" and none of its output lines starts with "# MAGIC",   *)
(* a bare "# MAGIC" line included.                                         *)
(***************************************************************************)
C2_MagicPrefixStripped ==
    Parsed =>
        \A i \in 1..Len(split_blocks) :
            FirstContentLine(handled_block(i - 1, split_blocks[i])) = MAGIC_MD =>
                /\ StartsWith(tmp_strs[i], MARKDOWN_MARKER)
                /\ \A k \in 1..Len(Split(tmp_strs[i])) :
                      ~StartsWith(Split(tmp_strs[i])[k], MAGIC)

(***************************************************************************)
(* C3. The claim as stated: the line "# MAGIC %sql SELECT 1" of a block    *)
(* comes out as the line "%sql SELECT 1" followed by a blank line.  The    *)
(* first line of the first block, which parse_dbnotebook drops, is set     *)
(* aside.                                                                  *)
(***************************************************************************)
C3_SqlLineBare ==
    Parsed =>
        \A ik \in SqlLines(split_blocks) :
            Contains(tmp_strs[ik[1]], <<NL>> \o BARE_SQL \o <<NL, NL>>)

(***************************************************************************)
(* C3, amended. The line "# MAGIC %sql SELECT 1" of a block, unless it is  *)
(* the first line of the first block (which is dropped), comes out as      *)
(* "# %sql SELECT 1" followed by a blank line: "# MAGIC " becomes "# ".    *)
(***************************************************************************)
C3_SqlLineCommented ==
    Parsed =>
        \A ik \in SqlLines(split_blocks) :
            Contains(tmp_strs[ik[1]], HASH_SQL \o <<NL, NL>>)

C3_Witness ==
    /\ Parsed
    /\ SqlLines(split_blocks) # {}
    /\ split_blocks[1] = MAGIC_SQL \o <<NL>> \o MAGIC_SQL

C5_ThreeBlankToTwo ==
    (pc = "back" /\ OneBlankRun(Split(nb_str), 3)) =>
        HasBlankRun(Split(db_text), 2)

(***************************************************************************)
(* C6. A run of main on a readable ".py" file without the text             *)
(* "# Databricks notebook source" ends with the failed assertion, before   *)
(* any block is split or converted and before any file is written.         *)
(***************************************************************************)
C6_Case ==
    /\ file_state = "ok"
    /\ EndsWith(args_file, EXT_PY)
    /\ ~Contains(disk_text, NOTEBOOK_SOURCE)

C6_AssertionFirst ==
    C6_Case =>
        /\ pc \in {"open", "branch", "assert", "raised"}
        /\ ~Ended => ENABLED Next
        /\ Ended => raised = "AssertionError"
        /\ split_blocks = <<>> /\ tmp_strs = <<>> /\ parsed_nb = <<>>
        /\ written = <<>>
        /\ exit_code = <<>>

C6_Witness == C6_Case /\ pc = "raised"

(***************************************************************************)
(* C7. The claim as stated: every run of main on a path that ends with     *)
(* neither ".py" nor ".ipynb" ends by raising ValueError, with no file     *)
(* written.                                                                *)
(***************************************************************************)
C7_Case ==
    /\ ~EndsWith(args_file, EXT_PY)
    /\ ~EndsWith(args_file, EXT_IPYNB)

C7_AlwaysValueError ==
    (C7_Case /\ Ended) => (raised = "ValueError" /\ written = <<>>)

(***************************************************************************)
(* C7, amended. Every run of main on a readable file whose path ends with  *)
(* neither ".py" nor ".ipynb" ends by raising ValueError, with no file     *)
(* written; a missing or unreadable file ends the run before the check of  *)
(* the path.                                                               *)
(***************************************************************************)
C7_ValueErrorWhenReadable ==
    (C7_Case /\ file_state = "ok") =>
        /\ pc \in {"open", "branch", "raised"}
        /\ ~Ended => ENABLED Next
        /\ Ended => raised = "ValueError"
        /\ written = <<>>
        /\ exit_code = <<>>

C7_Witness == C7_Case /\ file_state = "ok" /\ pc = "raised"

(***************************************************************************)
(* C8. A run of main on a missing or unreadable file prints one message to *)
(* the error stream and exits with code 1, before the check of the path,   *)
(* the conversion and any write.                                           *)
(***************************************************************************)
C8_ExitOne ==
    file_state # "ok" =>
        /\ pc \in {"open", "exited"}
        /\ ~Ended => ENABLED Next
        /\ Ended => (exit_code = <<1>> /\ Len(stderr) = 1)
        /\ raised = "none"
        /\ stdout = <<>>
        /\ file_content = <<>> /\ split_blocks = <<>> /\ parsed_nb = <<>>
        /\ db_text = <<>>
        /\ written = <<>>

C8_Witness == file_state = "unreadable" /\ pc = "exited" /\ stderr # <<>>

(***************************************************************************)
(* C9. parse_dbnotebook emits one cell for each block, in order; a block   *)
(* is a markdown cell exactly when its first non-blank line starts with    *)
(* "# MAGIC", and any other block is a code cell with its lines unchanged. *)
(***************************************************************************)
C9_ClassifiedByFirstLine ==
    Parsed =>
        /\ Len(tmp_strs) = Len(split_blocks)
        /\ parsed_nb = Concat(tmp_strs, 1, <<>>)
        /\ \A i \in 1..Len(split_blocks) :
              LET blck == handled_block(i - 1, split_blocks[i])
              IN  IF StartsWith(FirstContentLine(blck), MAGIC)
                  THEN StartsWith(tmp_strs[i], MARKDOWN_MARKER)
                  ELSE tmp_strs[i] = CODE_MARKER \o blck \o <<NL>>

(***************************************************************************)
(* C10. Every non-blank line of a code cell of the percent-format text is  *)
(* a line of the Databricks text, unchanged and in the same order.         *)
(***************************************************************************)
C10_CodeLinesKept ==
    pc = "back" => IsSubSeq(CodeLines(Split(nb_str)), Split(db_text))

=============================================================================
